---- MODULE Spec2Model ----
(***************************************************************************)
(* Model of SatisfactoryAudioRenamer/convert.py: the Extractor             *)
(* (wem_to_wav), the Renamer (convert), the Retrier                        *)
(* (retry_failed_conversions) and the module-level driver, acting on the   *)
(* file system (input tree, staging area out_temp/wem, output root out,    *)
(* failure ledger conversion_errors.log).                                  *)
(*                                                                         *)
(* File names, reference-file contents and tokens are sequences of         *)
(* lexemes (<<"a", ".", "wem">> is the name a.wem), so that Path.stem,     *)
(* Path.suffix, str.split and str.startswith are computed, not assumed.    *)
(* No lexeme other than "wem" begins with the characters w-e-m.            *)
(***************************************************************************)
EXTENDS Integers, Sequences, FiniteSets, TLC

(***************************************************************************)
(* Bounds of the explored environment.                                     *)
(***************************************************************************)
MaxTree == 2
MaxTokens == 2
MaxRefs == 2
MaxRuns == 2

(***************************************************************************)
(* String helpers (pathlib / str).                                         *)
(***************************************************************************)
SetMax(S) == CHOOSE m \in S : \A k \in S : k <= m

LastIndexOf(name, lex) == SetMax({0} \cup {k \in 1..Len(name) : name[k] = lex})

FirstIndexOf(name, lex) ==
    IF \E k \in 1..Len(name) : name[k] = lex
    THEN CHOOSE k \in 1..Len(name) : name[k] = lex /\ \A j \in 1..(k-1) : name[j] # lex
    ELSE 0

\* PurePath.suffix: the last "." and what follows, unless the dot is the
\* first or the last character of the name.
Suffix(name) ==
    LET d == LastIndexOf(name, ".")
    IN  IF 1 < d /\ d < Len(name) THEN SubSeq(name, d, Len(name)) ELSE <<>>

\* PurePath.stem
Stem(name) == SubSeq(name, 1, Len(name) - Len(Suffix(name)))

\* PurePath.name of a "/"-separated path string
BaseName(path) == SubSeq(path, LastIndexOf(path, "/") + 1, Len(path))

LowerLex(s) ==
    CASE s = "WEM" -> "wem"
      [] s = "WAV" -> "wav"
      [] s = "TXT" -> "txt"
      [] OTHER -> s

\* str.lower
Lower(name) == [k \in 1..Len(name) |-> LowerLex(name[k])]

\* base_name + ".wav"
WavName(stem) == stem \o <<".", "wav">>

\* token.startswith("wem")
StartsWithWem(token) == Len(token) >= 1 /\ token[1] = "wem"

\* filename.split('.')[0]
SplitDot0(filename) ==
    LET d == FirstIndexOf(filename, ".")
    IN  IF d = 0 THEN filename ELSE SubSeq(filename, 1, d - 1)

\* f"{filename.split('.')[0]}_{i}.wav"
NewName(fname, idx) == SplitDot0(fname) \o <<"_", ToString(idx), ".", "wav">>

ReplaceNl(data) == [k \in 1..Len(data) |-> IF data[k] = "\n" THEN " " ELSE data[k]]

RECURSIVE SplitSp(_)
\* str.split(" "): an empty string gives one empty token
SplitSp(s) ==
    LET d == FirstIndexOf(s, " ")
    IN  IF d = 0 THEN <<s>>
        ELSE <<SubSeq(s, 1, d - 1)>> \o SplitSp(SubSeq(s, d + 1, Len(s)))

\* data.replace("\n", " ").split(" ")
Tokenize(data) == SplitSp(ReplaceNl(data))

(***************************************************************************)
(* The environment: input trees under txtp/wem and reference files under   *)
(* txtp.  A source asset is [dir, name], dir being the directory names     *)
(* below the input root.                                                   *)
(***************************************************************************)
AllAssets ==
    { [dir |-> <<>>,    name |-> <<"a", ".", "wem">>],
      [dir |-> <<"1">>, name |-> <<"a", ".", "wem">>],
      [dir |-> <<"1">>, name |-> <<"r", "_", "0", ".", "WEM">>],
      [dir |-> <<"2">>, name |-> <<"a", ".", "wav">>],
      [dir |-> <<"2">>, name |-> <<"a", ".", "txt">>] }

Trees == {t \in SUBSET AllAssets : Cardinality(t) <= MaxTree}

\* the empty token is what two adjacent separators leave between them
TokenSet == { <<>>, <<"wem", "/", "a", ".", "wem">> }

TokenSeqs == UNION {[1..n -> TokenSet] : n \in 0..MaxTokens}

RECURSIVE Join(_)
\* the text of a reference file: tokens separated by a newline or a space
Join(ts) ==
    IF Len(ts) = 0 THEN <<>>
    ELSE IF Len(ts) = 1 THEN ts[1]
    ELSE ts[1] \o <<(IF Len(ts) % 2 = 0 THEN "\n" ELSE " ")>> \o Join(Tail(ts))

RefContents == {Join(ts) : ts \in TokenSeqs}

RefNames == { <<"r", ".", "txtp">>, <<"r", ".", "x", ".", "txtp">> }

\* what Path("txtp").glob("*.txtp") may find
RefSets == {M \in SUBSET RefNames : Cardinality(M) <= MaxRefs}

NoFiles == [p \in {} |-> "none"]

Put(fs, path, content) == [p \in DOMAIN fs \cup {path} |-> IF p = path THEN content ELSE fs[p]]

Remove(fs, path) == [p \in DOMAIN fs \ {path} |-> fs[p]]

IsPrefix(p, d) == Len(p) <= Len(d) /\ SubSeq(d, 1, Len(p)) = p

IsProperPrefix(p, d) == Len(p) < Len(d) /\ IsPrefix(p, d)

VARIABLES
    run, pc, exit_code, vgmExists,
    tree,
    tempExists, staging, out, out_dirs,
    ledger, failedPos,
    converted_count, skipped_count, failed_count,
    mapping, todo, cur,
    refsTodo, filename, tokens, i, renameLog,
    failed_files, rk, new_failures,
    decoder_calls, prev

vars == << run, pc, exit_code, vgmExists, tree, tempExists, staging, out,
           out_dirs, ledger, failedPos, converted_count, skipped_count,
           failed_count, mapping, todo, cur, refsTodo, filename, tokens, i,
           renameLog, failed_files, rk, new_failures, decoder_calls, prev >>

envVars == << tree >>
fsVars == << tempExists, staging, out, out_dirs >>
ledgerVars == << ledger, failedPos >>
counterVars == << converted_count, skipped_count, failed_count >>
walkVars == << mapping, todo, cur >>
convertVars == << refsTodo, filename, tokens, i, renameLog >>
retryVars == << failed_files, rk, new_failures >>


(***************************************************************************)
(* Outcomes of the external operations.  A Decoder run returns an exit     *)
(* status and may or may not have written its output file; copy2 and move  *)
(* may fail before or after the destination was written.                   *)
(***************************************************************************)
DecoderOutcomes == [rc : {0, 1}, created : BOOLEAN]

CopyOutcomes == {"ok", "fail", "fail_partial"}

MoveOutcomes == {"ok", "fail", "fail_partial"}

\* not (result.returncode != 0 or not wav_path.exists()); wav_path did not
\* exist before the run, so it exists afterwards iff the Decoder wrote it
IsDecodeSuccess_rcOnly(o) == o.rc = 0

IsDecodeSuccess(o) == o.rc = 0 /\ o.created

\* a variant that takes folder_path.name for the input root as well
DigitFolder_name(dir) == IF dir = <<>> THEN "wem" ELSE dir[Len(dir)]

\* digit_folder = "root" if folder_path == input_root else folder_path.name
DigitFolder(dir) == IF dir = <<>> THEN "root" ELSE dir[Len(dir)]

\* mapping.get(wavname.name, "unknown")
MappingGet_root(m, name) == IF name \in DOMAIN m THEN m[name] ELSE "root"

MappingGet(m, name) == IF name \in DOMAIN m THEN m[name] ELSE "unknown"

(***************************************************************************)
(* The failure ledger conversion_errors.log.  failed_handler keeps the     *)
(* file open in mode "w" (no append): it writes at its own position        *)
(* failedPos.  Sizes are counted in lines; a line is [nul, path], nul      *)
(* being the number of NUL-filled units in front of the path, which        *)
(* appear when the handler writes beyond the end of a file that was        *)
(* truncated through another handle.                                       *)
(***************************************************************************)
RECURSIVE LedgerSize(_)
LedgerSize(l) == IF l = <<>> THEN 0 ELSE l[1].nul + 1 + LedgerSize(Tail(l))

\* failed_logger.error(str(wem_path))
LedgerWrite(l, pos, path) ==
    LET size == LedgerSize(l)
    IN  Append(l, [nul |-> IF pos > size THEN pos - size ELSE 0, path |-> path])

(***************************************************************************)
(* os.walk(input_root): top-down, a directory's files before its           *)
(* subdirectories, files and subdirectories in any order.  The files that  *)
(* may come next after the files walked so far, the last one in dir c.     *)
(***************************************************************************)
WalkNext(td, c) ==
    IF \E g \in td : g.dir = c
    THEN {g \in td : g.dir = c}
    ELSE LET ancs == {n \in 0..Len(c) :
                        \E g \in td : IsProperPrefix(SubSeq(c, 1, n), g.dir)}
             p == SubSeq(c, 1, SetMax(ancs))
         IN  {g \in td : /\ IsProperPrefix(p, g.dir)
                         /\ ~ \E h \in td : IsProperPrefix(h.dir, g.dir)}

(***************************************************************************)
(* Initial state: the process starts; the operator's tree is in place,     *)
(* the output root is empty, a staging area may be left over from a run    *)
(* that was killed and a ledger from an earlier run.  The reference files  *)
(* are read when the Renamer opens them.                                   *)
(***************************************************************************)
\* what an earlier run may have left in conversion_errors.log
OldLedgers == { <<>>, <<[nul |-> 0, path |-> [dir |-> <<"1">>, name |-> <<"a", ".", "wem">>]]>> }

StaleFile == [dir |-> <<"stale">>, name |-> <<"a", ".", "wem">>]

Init ==
    /\ run = 1
    /\ pc = "boot"
    /\ exit_code = 0
    /\ vgmExists \in BOOLEAN
    /\ tree \in Trees
    /\ tempExists \in BOOLEAN
    /\ staging = IF tempExists THEN Put(NoFiles, WavName(<<"a">>), StaleFile) ELSE NoFiles
    /\ out = NoFiles
    /\ out_dirs = {}
    /\ ledger \in OldLedgers
    /\ failedPos = 0
    /\ converted_count = 0
    /\ skipped_count = 0
    /\ failed_count = 0
    /\ mapping = NoFiles
    /\ todo = {}
    /\ cur = <<>>
    /\ refsTodo = {}
    /\ filename = <<>>
    /\ tokens = <<>>
    /\ i = 0
    /\ renameLog = <<>>
    /\ failed_files = <<>>
    /\ rk = 0
    /\ new_failures = 0
    /\ decoder_calls = <<>>
    /\ prev = [run |-> 0, out |-> NoFiles, clean |-> FALSE]

(***************************************************************************)
(* Module start-up (lines 30-55).                                          *)
(***************************************************************************)
\* a variant that opens failed_handler before the check
StartupMissing_truncates ==
    /\ pc = "boot"
    /\ ~vgmExists
    /\ pc' = "exited"
    /\ exit_code' = 1
    /\ ledger' = <<>>
    /\ failedPos' = 0
    /\ UNCHANGED << run, vgmExists, envVars, fsVars, counterVars,
                    walkVars, convertVars, retryVars, decoder_calls, prev >>

\* if not VGMSTREAM.exists(): sys.exit(1)
StartupMissing ==
    /\ pc = "boot"
    /\ ~vgmExists
    /\ pc' = "exited"
    /\ exit_code' = 1
    /\ UNCHANGED << run, vgmExists, envVars, fsVars, ledgerVars, counterVars,
                    walkVars, convertVars, retryVars, decoder_calls, prev >>

\* a variant whose failed_handler opens the ledger for appending
StartupOk_appends ==
    /\ pc = "boot"
    /\ vgmExists
    /\ ledger' = ledger
    /\ failedPos' = LedgerSize(ledger)
    /\ converted_count' = 0
    /\ skipped_count' = 0
    /\ failed_count' = 0
    /\ pc' = "main"
    /\ UNCHANGED << run, exit_code, vgmExists, envVars, fsVars,
                    walkVars, convertVars, retryVars, decoder_calls, prev >>

\* the Decoder exists: failed_handler opens the ledger in mode "w", the
\* counters are set to zero
StartupOk ==
    /\ pc = "boot"
    /\ vgmExists
    /\ ledger' = <<>>
    /\ failedPos' = 0
    /\ converted_count' = 0
    /\ skipped_count' = 0
    /\ failed_count' = 0
    /\ pc' = "main"
    /\ UNCHANGED << run, exit_code, vgmExists, envVars, fsVars,
                    walkVars, convertVars, retryVars, decoder_calls, prev >>

(***************************************************************************)
(* Step 1: wem_to_wav(input_root, temp_root).                              *)
(***************************************************************************)
\* lines 61-69: the staging area is removed and created again
ExtractStart ==
    /\ pc = "main"
    /\ tempExists' = TRUE
    /\ staging' = NoFiles
    /\ mapping' = NoFiles
    /\ todo' = tree
    /\ cur' = <<>>
    /\ pc' = "extract"
    /\ UNCHANGED << run, exit_code, vgmExists, envVars, out, out_dirs, ledgerVars,
                    counterVars, convertVars, retryVars, decoder_calls, prev >>

Ext(f) == Lower(Suffix(f.name))

AssetWav(f) == WavName(Stem(f.name))

\* a variant that tests the staging area only
ExtractSkips_stagingOnly(f) == AssetWav(f) \in DOMAIN staging

\* wav_path.exists() or final_out_path.exists()
ExtractSkips(f) ==
    \/ AssetWav(f) \in DOMAIN staging
    \/ <<DigitFolder(f.dir), AssetWav(f)>> \in DOMAIN out

\* lines 72-84, common to every file of the walk
WalkStep(f) ==
    /\ pc = "extract"
    /\ f \in WalkNext(todo, cur)
    /\ mapping' = Put(mapping, AssetWav(f), DigitFolder(f.dir))
    /\ todo' = todo \ {f}
    /\ cur' = f.dir

\* lines 87-90
ExtractSkip ==
    \E f \in todo :
        /\ WalkStep(f)
        /\ ExtractSkips(f)
        /\ skipped_count' = skipped_count + 1
        /\ UNCHANGED << run, pc, exit_code, vgmExists, envVars, fsVars, ledgerVars,
                        converted_count, failed_count, convertVars, retryVars,
                        decoder_calls, prev >>

\* lines 92-107
ExtractDecode ==
    \E f \in todo, o \in DecoderOutcomes :
        /\ WalkStep(f)
        /\ ~ExtractSkips(f)
        /\ Ext(f) = <<".", "wem">>
        /\ decoder_calls' = Append(decoder_calls, [stage |-> "extract", src |-> f, res |-> o])
        /\ staging' = IF o.created THEN Put(staging, AssetWav(f), f) ELSE staging
        /\ IF IsDecodeSuccess(o)
           THEN /\ converted_count' = converted_count + 1
                /\ UNCHANGED << failed_count, ledgerVars >>
           ELSE /\ failed_count' = failed_count + 1
                /\ ledger' = LedgerWrite(ledger, failedPos, f)
                /\ failedPos' = failedPos + 1
                /\ UNCHANGED converted_count
        /\ UNCHANGED << run, pc, exit_code, vgmExists, envVars, tempExists, out, out_dirs,
                        skipped_count, convertVars, retryVars, prev >>

\* a variant that counts a copied .wav as converted
ExtractCopy_converted ==
    \E f \in todo, o \in CopyOutcomes :
        /\ WalkStep(f)
        /\ ~ExtractSkips(f)
        /\ Ext(f) = <<".", "wav">>
        /\ staging' = IF o \in {"ok", "fail_partial"} THEN Put(staging, AssetWav(f), f) ELSE staging
        /\ IF o = "ok"
           THEN /\ converted_count' = converted_count + 1
                /\ UNCHANGED << failed_count, ledgerVars >>
           ELSE /\ failed_count' = failed_count + 1
                /\ ledger' = LedgerWrite(ledger, failedPos, f)
                /\ failedPos' = failedPos + 1
                /\ UNCHANGED converted_count
        /\ UNCHANGED << run, pc, exit_code, vgmExists, envVars, tempExists, out, out_dirs,
                        skipped_count, convertVars, retryVars, decoder_calls, prev >>

\* lines 109-120
ExtractCopy ==
    \E f \in todo, o \in CopyOutcomes :
        /\ WalkStep(f)
        /\ ~ExtractSkips(f)
        /\ Ext(f) = <<".", "wav">>
        /\ staging' = IF o \in {"ok", "fail_partial"} THEN Put(staging, AssetWav(f), f) ELSE staging
        /\ IF o = "ok"
           THEN /\ skipped_count' = skipped_count + 1
                /\ UNCHANGED << failed_count, ledgerVars >>
           ELSE /\ failed_count' = failed_count + 1
                /\ ledger' = LedgerWrite(ledger, failedPos, f)
                /\ failedPos' = failedPos + 1
                /\ UNCHANGED skipped_count
        /\ UNCHANGED << run, pc, exit_code, vgmExists, envVars, tempExists, out, out_dirs,
                        converted_count, convertVars, retryVars, decoder_calls, prev >>

\* neither branch of lines 92 and 109
ExtractOther ==
    \E f \in todo :
        /\ WalkStep(f)
        /\ ~ExtractSkips(f)
        /\ Ext(f) \notin {<<".", "wem">>, <<".", "wav">>}
        /\ UNCHANGED << run, pc, exit_code, vgmExists, envVars, fsVars, ledgerVars,
                        counterVars, convertVars, retryVars, decoder_calls, prev >>

\* line 121, then lines 222-223: txtp_files = Path("txtp").glob("*.txtp")
ExtractReturn ==
    /\ pc = "extract"
    /\ todo = {}
    /\ refsTodo' \in RefSets
    /\ cur' = <<>>
    /\ pc' = "rename"
    /\ UNCHANGED << run, exit_code, vgmExists, envVars, fsVars, ledgerVars, counterVars,
                    mapping, todo, filename, tokens, i, renameLog, retryVars,
                    decoder_calls, prev >>


(***************************************************************************)
(* Step 2: convert(filename, wav_root, out_root, mapping), called once     *)
(* for each reference file.                                                *)
(***************************************************************************)
\* lines 130-135: the reference file cannot be read
ConvertUnreadable ==
    \E fn \in refsTodo :
        /\ pc = "rename"
        /\ refsTodo' = refsTodo \ {fn}
        /\ UNCHANGED << run, pc, exit_code, vgmExists, envVars, fsVars, ledgerVars,
                        counterVars, walkVars, filename, tokens, i, renameLog,
                        retryVars, decoder_calls, prev >>

\* lines 126-137
ConvertStart ==
    \E fn \in refsTodo, data \in RefContents :
        /\ pc = "rename"
        /\ refsTodo' = refsTodo \ {fn}
        /\ filename' = fn
        /\ tokens' = Tokenize(data)
        /\ i' = 0
        /\ renameLog' = <<>>
        /\ pc' = "convert"
        /\ UNCHANGED << run, exit_code, vgmExists, envVars, fsVars, ledgerVars,
                        counterVars, walkVars, retryVars, decoder_calls, prev >>

\* wav_file_only = Path(token).stem + ".wav"
TokenWav(token) == WavName(Stem(BaseName(token)))

\* new_name = out_folder / f"{filename.split('.')[0]}_{i}.wav"
FinalAsset(m, fname, token, idx) == <<MappingGet(m, TokenWav(token)), NewName(fname, idx)>>

\* the token at 0-based position i
Token == tokens[i + 1]

\* line 140 false
ConvertNotWem ==
    /\ pc = "convert"
    /\ i < Len(tokens)
    /\ ~StartsWithWem(Token)
    /\ i' = i + 1
    /\ renameLog' = Append(renameLog, "none")
    /\ UNCHANGED << run, pc, exit_code, vgmExists, envVars, fsVars, ledgerVars,
                    counterVars, walkVars, refsTodo, filename, tokens,
                    retryVars, decoder_calls, prev >>

\* lines 141-146, common to every wem token
WemToken ==
    /\ pc = "convert"
    /\ i < Len(tokens)
    /\ StartsWithWem(Token)
    /\ out_dirs' = out_dirs \cup {MappingGet(mapping, TokenWav(Token))}
    /\ i' = i + 1

\* a variant without the test of line 148: the move replaces the file
ConvertExists_overwrites ==
    /\ WemToken
    /\ FinalAsset(mapping, filename, Token, i) \in DOMAIN out
    /\ TokenWav(Token) \in DOMAIN staging
    /\ out' = Put(out, FinalAsset(mapping, filename, Token, i), staging[TokenWav(Token)])
    /\ staging' = Remove(staging, TokenWav(Token))
    /\ renameLog' = Append(renameLog, "renamed")
    /\ UNCHANGED << run, pc, exit_code, vgmExists, envVars, tempExists,
                    ledgerVars, counterVars, walkVars, refsTodo, filename, tokens,
                    retryVars, decoder_calls, prev >>

\* lines 148-150
ConvertExists ==
    /\ WemToken
    /\ FinalAsset(mapping, filename, Token, i) \in DOMAIN out
    /\ renameLog' = Append(renameLog, "skipping")
    /\ UNCHANGED << run, pc, exit_code, vgmExists, envVars, tempExists, staging, out,
                    ledgerVars, counterVars, walkVars, refsTodo, filename, tokens,
                    retryVars, decoder_calls, prev >>

\* a variant that copies instead of moving
StagingAfterMove_copy(st, name, o) == st

\* a variant that deletes the staged file when the move fails
StagingAfterMove_cleans(st, name, o) == Remove(st, name)

\* the staged file leaves the staging area when shutil.move succeeds
StagingAfterMove(st, name, o) == IF o = "ok" THEN Remove(st, name) ELSE st

\* a variant that lets the exception of a failed move escape
PcAfterMove_raise(o) == IF o = "ok" THEN "convert" ELSE "crashed"

\* except Exception: logging.error(...)
PcAfterMove(o) == "convert"

\* lines 152-157
ConvertMove ==
    \E o \in MoveOutcomes :
        /\ WemToken
        /\ FinalAsset(mapping, filename, Token, i) \notin DOMAIN out
        /\ TokenWav(Token) \in DOMAIN staging
        /\ out' = IF o = "fail" THEN out
                  ELSE Put(out, FinalAsset(mapping, filename, Token, i), staging[TokenWav(Token)])
        /\ staging' = StagingAfterMove(staging, TokenWav(Token), o)
        /\ renameLog' = Append(renameLog, IF o = "ok" THEN "renamed" ELSE "failed")
        /\ pc' = PcAfterMove(o)
        /\ UNCHANGED << run, exit_code, vgmExists, envVars, tempExists,
                        ledgerVars, counterVars, walkVars, refsTodo, filename, tokens,
                        retryVars, decoder_calls, prev >>

\* a variant that treats a missing staged file as a failure
ConvertMissing_records ==
    /\ WemToken
    /\ FinalAsset(mapping, filename, Token, i) \notin DOMAIN out
    /\ TokenWav(Token) \notin DOMAIN staging
    /\ renameLog' = Append(renameLog, "not found")
    /\ failed_count' = failed_count + 1
    /\ UNCHANGED << run, pc, exit_code, vgmExists, envVars, tempExists, staging, out,
                    ledgerVars, converted_count, skipped_count, walkVars, refsTodo,
                    filename, tokens, retryVars, decoder_calls, prev >>

\* lines 158-159
ConvertMissing ==
    /\ WemToken
    /\ FinalAsset(mapping, filename, Token, i) \notin DOMAIN out
    /\ TokenWav(Token) \notin DOMAIN staging
    /\ renameLog' = Append(renameLog, "not found")
    /\ UNCHANGED << run, pc, exit_code, vgmExists, envVars, tempExists, staging, out,
                    ledgerVars, counterVars, walkVars, refsTodo, filename, tokens,
                    retryVars, decoder_calls, prev >>

\* the loop of line 139 is over
ConvertReturn ==
    /\ pc = "convert"
    /\ i = Len(tokens)
    /\ filename' = <<>>
    /\ tokens' = <<>>
    /\ i' = 0
    /\ renameLog' = <<>>
    /\ pc' = "rename"
    /\ UNCHANGED << run, exit_code, vgmExists, envVars, fsVars, ledgerVars, counterVars,
                    walkVars, refsTodo, retryVars, decoder_calls, prev >>

(***************************************************************************)
(* Step 3: retry_failed_conversions(temp_wav_root).  The ledger file       *)
(* exists whenever this is reached (failed_handler created it), so the     *)
(* early return of lines 166-168 is never taken.                           *)
(***************************************************************************)
\* a variant that reads the ledger without truncating it
RetryStart_keeps ==
    /\ pc = "rename"
    /\ refsTodo = {}
    /\ failed_files' = ledger
    /\ rk' = 0
    /\ new_failures' = 0
    /\ pc' = "retry"
    /\ UNCHANGED << run, exit_code, vgmExists, envVars, fsVars, ledgerVars, counterVars,
                    walkVars, convertVars, decoder_calls, prev >>

\* lines 172-178: read the lines, truncate through a second handle
RetryStart ==
    /\ pc = "rename"
    /\ refsTodo = {}
    /\ failed_files' = ledger
    /\ rk' = 0
    /\ ledger' = <<>>
    /\ new_failures' = 0
    /\ pc' = "retry"
    /\ UNCHANGED << run, exit_code, vgmExists, envVars, fsVars, failedPos, counterVars,
                    walkVars, convertVars, decoder_calls, prev >>

\* wav_name = wem_path.stem + ".wav"
EntryWav(e) == WavName(Stem(e.path.name))

\* the entry the loop of line 180 is at; rk entries are behind it
Entry == failed_files[rk + 1]

\* lines 185-187
RetrySkip ==
    /\ pc = "retry"
    /\ rk < Len(failed_files)
    /\ EntryWav(Entry) \in DOMAIN staging
    /\ rk' = rk + 1
    /\ UNCHANGED << run, pc, exit_code, vgmExists, envVars, fsVars, ledgerVars,
                    counterVars, walkVars, convertVars, failed_files, new_failures,
                    decoder_calls, prev >>

\* lines 189-207; a line that carries NUL characters cannot be passed to
\* subprocess.run (ValueError)
RetryDecode ==
    \E o \in DecoderOutcomes :
        /\ pc = "retry"
        /\ rk < Len(failed_files)
        /\ EntryWav(Entry) \notin DOMAIN staging
        /\ IF Entry.nul > 0
           THEN /\ pc' = "crashed"
                /\ UNCHANGED << staging, ledgerVars, converted_count, rk, new_failures,
                                decoder_calls >>
           ELSE /\ pc' = pc
                /\ rk' = rk + 1
                /\ decoder_calls' = Append(decoder_calls,
                                           [stage |-> "retry", src |-> Entry.path, res |-> o])
                /\ staging' = IF o.created THEN Put(staging, EntryWav(Entry), Entry.path)
                              ELSE staging
                /\ IF IsDecodeSuccess(o)
                   THEN /\ converted_count' = converted_count + 1
                        /\ UNCHANGED << new_failures, ledgerVars >>
                   ELSE /\ new_failures' = new_failures + 1
                        /\ ledger' = LedgerWrite(ledger, failedPos, Entry.path)
                        /\ failedPos' = failedPos + 1
                        /\ UNCHANGED converted_count
        /\ UNCHANGED << run, exit_code, vgmExists, envVars, tempExists, out, out_dirs,
                        skipped_count, failed_count, walkVars, convertVars, failed_files,
                        prev >>

\* a variant that adds the new failures to the Extractor's
RetryReturn_adds ==
    /\ pc = "retry"
    /\ rk = Len(failed_files)
    /\ failed_count' = failed_count + new_failures
    /\ pc' = "cleanup"
    /\ UNCHANGED << run, exit_code, vgmExists, envVars, fsVars, ledgerVars,
                    converted_count, skipped_count, walkVars, convertVars, retryVars,
                    decoder_calls, prev >>

\* line 210
RetryReturn ==
    /\ pc = "retry"
    /\ rk = Len(failed_files)
    /\ failed_count' = new_failures
    /\ pc' = "cleanup"
    /\ UNCHANGED << run, exit_code, vgmExists, envVars, fsVars, ledgerVars,
                    converted_count, skipped_count, walkVars, convertVars, retryVars,
                    decoder_calls, prev >>

(***************************************************************************)
(* Driver, lines 230-242.  prev keeps, of the last finished run, the       *)
(* output root it left and whether it left nothing unprocessed.            *)
(***************************************************************************)
RunClean ==
    /\ ledger = <<>>
    /\ staging = NoFiles
    /\ \A k \in 1..Len(decoder_calls) :
          decoder_calls[k].res.rc = 0 /\ decoder_calls[k].res.created

\* a variant that leaves the staging root in place
Cleanup_keeps ==
    /\ pc = "cleanup"
    /\ prev' = [run |-> run, out |-> out, clean |-> RunClean]
    /\ pc' = "summary"
    /\ UNCHANGED << run, exit_code, vgmExists, envVars, fsVars, ledgerVars,
                    counterVars, walkVars, convertVars, retryVars, decoder_calls >>

\* lines 231-233
Cleanup ==
    /\ pc = "cleanup"
    /\ prev' = [run |-> run, out |-> out, clean |-> RunClean]
    /\ tempExists' = FALSE
    /\ staging' = NoFiles
    /\ pc' = "summary"
    /\ UNCHANGED << run, exit_code, vgmExists, envVars, out, out_dirs, ledgerVars,
                    counterVars, walkVars, convertVars, retryVars, decoder_calls >>

\* lines 236-242
Summary ==
    /\ pc = "summary"
    /\ pc' = "done"
    /\ UNCHANGED << run, exit_code, vgmExists, envVars, fsVars, ledgerVars, counterVars,
                    walkVars, convertVars, retryVars, decoder_calls, prev >>

\* the operator starts the script again: a new process, the same files
Restart ==
    /\ pc \in {"done", "exited", "crashed"}
    /\ run < MaxRuns
    /\ run' = run + 1
    /\ pc' = "boot"
    /\ exit_code' = 0
    /\ vgmExists' \in BOOLEAN
    /\ failedPos' = 0
    /\ converted_count' = 0
    /\ skipped_count' = 0
    /\ failed_count' = 0
    /\ mapping' = NoFiles
    /\ todo' = {}
    /\ cur' = <<>>
    /\ refsTodo' = {}
    /\ filename' = <<>>
    /\ tokens' = <<>>
    /\ i' = 0
    /\ renameLog' = <<>>
    /\ failed_files' = <<>>
    /\ rk' = 0
    /\ new_failures' = 0
    /\ decoder_calls' = <<>>
    /\ UNCHANGED << envVars, fsVars, ledger, prev >>

Next ==
    \/ StartupMissing
    \/ StartupOk
    \/ ExtractStart
    \/ ExtractSkip
    \/ ExtractDecode
    \/ ExtractCopy
    \/ ExtractOther
    \/ ExtractReturn
    \/ ConvertUnreadable
    \/ ConvertStart
    \/ ConvertNotWem
    \/ ConvertExists
    \/ ConvertMove
    \/ ConvertMissing
    \/ ConvertReturn
    \/ RetryStart
    \/ RetrySkip
    \/ RetryDecode
    \/ RetryReturn
    \/ Cleanup
    \/ Summary

\* one execution of the script
Spec == Init /\ [][Next]_vars

NextRerun == Next \/ Restart

\* the script run again and again on the files the last run left
SpecRerun == Init /\ [][NextRerun]_vars

\* the interpreter always takes the next step of a running script
FairSpec == Spec /\ WF_vars(Next)


(***************************************************************************)
(* convert on its own: the calls of convert for the reference files, with  *)
(* the mapping argument, the staging area and the output root drawn from   *)
(* small sets.  A staged file without a mapping entry is among them (the   *)
(* file system matches names without regard to case where the mapping      *)
(* does not, and other programs write to out_temp/wem).                    *)
(***************************************************************************)
ConvertMappings == { NoFiles, Put(NoFiles, WavName(<<"a">>), "1") }

ConvertStagings ==
    { NoFiles,
      Put(NoFiles, WavName(<<"a">>), [dir |-> <<"1">>, name |-> <<"a", ".", "wem">>]) }

ConvertOuts == { NoFiles, Put(NoFiles, <<"unknown", NewName(<<"r">>, 0)>>, StaleFile) }

InitConvert ==
    /\ run = 1
    /\ pc = "rename"
    /\ exit_code = 0
    /\ vgmExists = TRUE
    /\ tree = {}
    /\ tempExists = TRUE
    /\ staging \in ConvertStagings
    /\ out \in ConvertOuts
    /\ out_dirs = {p[1] : p \in DOMAIN out}
    /\ ledger = <<>>
    /\ failedPos = 0
    /\ converted_count = 0
    /\ skipped_count = 0
    /\ failed_count = 0
    /\ mapping \in ConvertMappings
    /\ todo = {}
    /\ cur = <<>>
    /\ refsTodo \in RefSets \ {{}}
    /\ filename = <<>>
    /\ tokens = <<>>
    /\ i = 0
    /\ renameLog = <<>>
    /\ failed_files = <<>>
    /\ rk = 0
    /\ new_failures = 0
    /\ decoder_calls = <<>>
    /\ prev = [run |-> 0, out |-> NoFiles, clean |-> FALSE]

NextConvert ==
    \/ ConvertUnreadable
    \/ ConvertStart
    \/ ConvertNotWem
    \/ ConvertExists
    \/ ConvertMove
    \/ ConvertMissing
    \/ ConvertReturn

SpecConvert == InitConvert /\ [][NextConvert]_vars

(***************************************************************************)
(* wem_to_wav on its own: one call on an input root with nested folders,   *)
(* a folder that bears the input root's own name, and an output root that  *)
(* may already hold a file.                                                *)
(***************************************************************************)
\* wem_root = Path("txtp/wem"): the input root's own name
InputRootName == "wem"

ExtractAssets ==
    { [dir |-> <<>>,              name |-> <<"a", ".", "wem">>],
      [dir |-> <<"1">>,           name |-> <<"a", ".", "wem">>],
      [dir |-> <<"1", "2">>,      name |-> <<"b", ".", "wem">>],
      [dir |-> <<InputRootName>>, name |-> <<"a", ".", "wav">>],
      [dir |-> <<InputRootName>>, name |-> <<"a", ".", "txt">>] }

ExtractTrees == {t \in SUBSET ExtractAssets : Cardinality(t) <= MaxTree}

ExtractOuts == { NoFiles, Put(NoFiles, <<"1", WavName(<<"a">>)>>, StaleFile) }

InitExtract ==
    /\ run = 1
    /\ pc = "main"
    /\ exit_code = 0
    /\ vgmExists = TRUE
    /\ tree \in ExtractTrees
    /\ tempExists \in BOOLEAN
    /\ staging = IF tempExists THEN Put(NoFiles, WavName(<<"a">>), StaleFile) ELSE NoFiles
    /\ out \in ExtractOuts
    /\ out_dirs = {p[1] : p \in DOMAIN out}
    /\ ledger = <<>>
    /\ failedPos = 0
    /\ converted_count = 0
    /\ skipped_count = 0
    /\ failed_count = 0
    /\ mapping = NoFiles
    /\ todo = {}
    /\ cur = <<>>
    /\ refsTodo = {}
    /\ filename = <<>>
    /\ tokens = <<>>
    /\ i = 0
    /\ renameLog = <<>>
    /\ failed_files = <<>>
    /\ rk = 0
    /\ new_failures = 0
    /\ decoder_calls = <<>>
    /\ prev = [run |-> 0, out |-> NoFiles, clean |-> FALSE]

NextExtract ==
    \/ ExtractStart
    \/ ExtractSkip
    \/ ExtractDecode
    \/ ExtractCopy
    \/ ExtractOther
    \/ ExtractReturn

SpecExtract == InitExtract /\ [][NextExtract]_vars

(***************************************************************************)
(* Vocabulary of the properties.                                           *)
(***************************************************************************)
\* the Decoder's contract: exit status zero and the output file written
DecodeOk(res) == res.rc = 0 /\ res.created

Calls(stage) == {k \in 1..Len(decoder_calls) : decoder_calls[k].stage = stage}

OkCalls(stage) == {k \in Calls(stage) : DecodeOk(decoder_calls[k].res)}

BadCalls(stage) == {k \in Calls(stage) : ~DecodeOk(decoder_calls[k].res)}

\* the lines of the ledger that are exactly the path pth
LinesOf(pth) == {k \in 1..Len(ledger) : ledger[k] = [nul |-> 0, path |-> pth]}

\* wem_to_wav is at its return statement
AtExtractReturn == pc = "extract" /\ todo = {}

\* retry_failed_conversions has returned, the staging area is still there
AfterRetry == pc = "cleanup"

(***************************************************************************)
(* C1: a second run of the whole pipeline on a tree that the first run     *)
(* fully processed (every decode succeeded, every staged file was          *)
(* relocated, the ledger stayed empty) invokes the Decoder zero times and  *)
(* leaves every file under the output root as it was.                      *)
(***************************************************************************)
C1_SecondRunDecodesNothing ==
    (run > 1 /\ prev.run = run - 1 /\ prev.clean /\ prev.out # NoFiles)
        => /\ decoder_calls = <<>>
           /\ \A p \in DOMAIN prev.out : p \in DOMAIN out /\ out[p] = prev.out[p]

(***************************************************************************)
(* C2: when wem_to_wav returns, every staged file has a FolderMapping      *)
(* entry and the entry is the label of the folder of the source asset the  *)
(* staged file was produced from.                                          *)
(***************************************************************************)
C2_MappingNamesTheProducer ==
    AtExtractReturn =>
        \A n \in DOMAIN staging :
            n \in DOMAIN mapping /\ mapping[n] = DigitFolder(staging[n].dir)

(***************************************************************************)
(* C3: after a retry pass over a ledger none of whose entries had a staged *)
(* output, converted_count has grown by the number of replayed decodes     *)
(* that succeeded, the ledger holds exactly the entries whose replayed     *)
(* decode failed again, each once, and failed_count is their number.       *)
(***************************************************************************)
\* a staged file that no replayed decode wrote was there when the pass began
NoStagedBeforeRetry ==
    \A k \in 1..Len(failed_files) :
        EntryWav(failed_files[k]) \in DOMAIN staging
            => \E c \in Calls("retry") :
                  /\ decoder_calls[c].res.created
                  /\ AssetWav(decoder_calls[c].src) = EntryWav(failed_files[k])

C3_RetryBookkeeping ==
    (AfterRetry /\ NoStagedBeforeRetry) =>
        /\ converted_count = Cardinality(OkCalls("extract")) + Cardinality(OkCalls("retry"))
        /\ failed_count = Cardinality(BadCalls("retry"))
        /\ Len(ledger) = Cardinality(BadCalls("retry"))
        /\ \A c \in BadCalls("retry") : Cardinality(LinesOf(decoder_calls[c].src)) = 1
        /\ \A c \in OkCalls("retry") : LinesOf(decoder_calls[c].src) = {}

(***************************************************************************)
(* C4: for a tree of .wem assets with no final output in the way, when     *)
(* wem_to_wav returns every asset was walked, converted_count is the       *)
(* number of decodes that succeeded, failed_count the number that failed,  *)
(* each failing asset's path is on the ledger exactly once and no          *)
(* succeeding asset's path is on it.                                       *)
(***************************************************************************)
WemBatch ==
    /\ tree # {}
    /\ \A f \in tree : /\ Ext(f) = <<".", "wem">>
                       /\ <<DigitFolder(f.dir), AssetWav(f)>> \notin DOMAIN out

C4_PartialFailureIsolation ==
    (AtExtractReturn /\ WemBatch) =>
        /\ Len(decoder_calls) + skipped_count = Cardinality(tree)
        /\ converted_count = Cardinality(OkCalls("extract"))
        /\ failed_count = Cardinality(BadCalls("extract"))
        /\ Len(ledger) = failed_count
        /\ \A c \in BadCalls("extract") : Cardinality(LinesOf(decoder_calls[c].src)) = 1
        /\ \A c \in OkCalls("extract") : LinesOf(decoder_calls[c].src) = {}

\* a batch of two in which the first decode failed and the second succeeded
C4_Witness ==
    /\ AtExtractReturn
    /\ WemBatch
    /\ Len(decoder_calls) = 2
    /\ ~DecodeOk(decoder_calls[1].res)
    /\ DecodeOk(decoder_calls[2].res)
    /\ converted_count = 1
    /\ failed_count = 1

(***************************************************************************)
(* C5: the failed count of the summary is the number of assets that failed *)
(* in the Extractor and are still without a successful decode after the    *)
(* retry pass; an entry the Retrier skipped counts as failing unless the   *)
(* staged file of its name was produced from that entry's own asset.       *)
(***************************************************************************)
Replayed(e) == \E c \in Calls("retry") : decoder_calls[c].src = e.path

StillFailing(e) ==
    IF Replayed(e)
    THEN ~ \E c \in OkCalls("retry") : decoder_calls[c].src = e.path
    ELSE ~ (EntryWav(e) \in DOMAIN staging /\ staging[EntryWav(e)] = e.path)

C5_FailedCountIsStillFailing ==
    AfterRetry =>
        failed_count = Cardinality({k \in 1..Len(failed_files) : StillFailing(failed_files[k])})


(***************************************************************************)
(* Tokens of the running convert call: position p of the token list is     *)
(* index p - 1, and renameLog[p] is what the call logged for it.           *)
(***************************************************************************)
Dest(p) == FinalAsset(mapping, filename, tokens[p], p - 1)

\* two processed wem tokens that resolve to the same staged filename
SameStaged(p1, p2) ==
    /\ p1 < p2
    /\ p2 <= Len(renameLog)
    /\ StartsWithWem(tokens[p1])
    /\ StartsWithWem(tokens[p2])
    /\ TokenWav(tokens[p1]) = TokenWav(tokens[p2])

\* the staged file was there and the destination was not when p1 was
\* processed, and the destination of p2 was not there either
OnceStaged(p1, p2) ==
    /\ renameLog[p1] \in {"renamed", "failed"}
    /\ renameLog[p2] # "skipping"

DiffersOnlyInIndex(d1, d2, i1, i2) ==
    LET n == Len(d1[2])
    IN  /\ d1[1] = d2[1]
        /\ Len(d2[2]) = n
        /\ n >= 4
        /\ \A k \in 1..n : k # n - 2 => d1[2][k] = d2[2][k]
        /\ d1[2][n - 2] = ToString(i1)
        /\ d2[2][n - 2] = ToString(i2)

SecondFindsNothing(p1, p2) ==
    /\ DiffersOnlyInIndex(Dest(p1), Dest(p2), p1 - 1, p2 - 1)
    /\ Dest(p1) \in DOMAIN out
    /\ TokenWav(tokens[p1]) \notin DOMAIN staging
    /\ renameLog[p2] = "not found"
    /\ Dest(p2) \notin DOMAIN out

C6_Inv ==
    pc = "convert" =>
        \A p1, p2 \in 1..Len(renameLog) :
            (SameStaged(p1, p2) /\ OnceStaged(p1, p2) /\ renameLog[p1] = "renamed")
                => SecondFindsNothing(p1, p2)

DriverOrder ==
    { <<"boot", "exited">>, <<"boot", "main">>, <<"main", "extract">>,
      <<"extract", "rename">>, <<"rename", "convert">>, <<"convert", "rename">>,
      <<"rename", "retry">>, <<"retry", "cleanup">>, <<"cleanup", "summary">>,
      <<"summary", "done">> }

C7_RunReachesSummary ==
    /\ [][/\ pc' # pc => <<pc, pc'>> \in DriverOrder
          /\ pc' = "retry" => refsTodo = {}]_vars
    /\ (pc = "main") ~> (pc = "done")

\* a finished run in which a decode, a copy or a move failed and a replayed
\* decode failed again
C7_Witness ==
    /\ pc = "done"
    /\ BadCalls("extract") # {}
    /\ BadCalls("retry") # {}
    /\ failed_count > 0

(***************************************************************************)
(* C8: a file whose extension is neither .wem nor .wav is ignored by the   *)
(* Extractor: walking it changes neither the staging area, the             *)
(* FolderMapping, the ledger, the counters nor the Decoder invocations.    *)
(***************************************************************************)
WalksOther ==
    /\ pc = "extract"
    /\ \E f \in todo : /\ todo' = todo \ {f}
                       /\ Ext(f) \notin {<<".", "wem">>, <<".", "wav">>}

C8_OtherExtensionIgnored ==
    [][WalksOther => UNCHANGED << staging, mapping, ledger, converted_count,
                                  skipped_count, failed_count, decoder_calls >>]_vars

(***************************************************************************)
(* C9: when the Decoder binary is missing at start-up the process exits    *)
(* with a nonzero status and nothing else happens: the staging area is     *)
(* neither wiped nor created, the Decoder is not invoked, nothing under    *)
(* the output root changes and the ledger of the previous run is kept.     *)
(***************************************************************************)
C9_MissingDecoderIsFatal ==
    /\ [][(pc = "boot" /\ ~vgmExists)
            => /\ pc' = "exited"
               /\ exit_code' # 0
               /\ UNCHANGED << tempExists, staging, out, ledger, decoder_calls >>]_vars
    /\ [][pc # "exited"]_vars
    /\ [](pc = "exited" => exit_code # 0 /\ decoder_calls = <<>>)

\* exited with the old ledger and the stale staging area still in place
C9_Witness ==
    /\ pc = "exited"
    /\ exit_code = 1
    /\ ledger # <<>>
    /\ tempExists
    /\ staging # NoFiles

(***************************************************************************)
(* C10: a wem token whose staged filename has no FolderMapping entry       *)
(* resolves to "unknown" without error; when the staged file exists and    *)
(* the destination does not, the move goes to                              *)
(* out/unknown/<ref_stem>_<i>.wav.                                         *)
(***************************************************************************)
Unmapped(p) == StartsWithWem(tokens[p]) /\ TokenWav(tokens[p]) \notin DOMAIN mapping

UnknownDest(p) == <<"unknown", NewName(filename, p - 1)>>

C10_UnknownFallback ==
    /\ pc \in {"rename", "convert"}
    /\ pc = "convert" =>
          \A p \in 1..Len(renameLog) :
              Unmapped(p) =>
                  /\ "unknown" \in out_dirs
                  /\ renameLog[p] = "skipping" => UnknownDest(p) \in DOMAIN out
                  /\ renameLog[p] = "not found" => TokenWav(tokens[p]) \notin DOMAIN staging
                  /\ renameLog[p] = "renamed" =>
                        /\ UnknownDest(p) \in DOMAIN out
                        /\ TokenWav(tokens[p]) \notin DOMAIN staging

C10_Witness ==
    /\ pc = "convert"
    /\ \E p \in 1..Len(renameLog) :
          /\ Unmapped(p)
          /\ renameLog[p] = "renamed"
          /\ UnknownDest(p) \in DOMAIN out

(***************************************************************************)
(* C11: in wem_to_wav a source asset directly in the input root is         *)
(* labelled "root" in the FolderMapping and an asset in any other          *)
(* directory is labelled with the name of its immediate parent directory;  *)
(* the input root's own name is never the label of an asset directly       *)
(* under it.                                                               *)
(***************************************************************************)
\* the file the walk takes in this step
Walks(f) == pc = "extract" /\ f \in todo /\ todo' = todo \ {f}

ParentName(f) == f.dir[Len(f.dir)]

C11_RootLabel ==
    [][\A f \in todo :
          Walks(f) =>
              /\ AssetWav(f) \in DOMAIN mapping'
              /\ Len(f.dir) = 0 => /\ mapping'[AssetWav(f)] = "root"
                                   /\ mapping'[AssetWav(f)] # InputRootName
              /\ Len(f.dir) > 0 => mapping'[AssetWav(f)] = ParentName(f)]_vars

\* an asset of the input root and an asset two folders down were walked
C11_Witness ==
    /\ AtExtractReturn
    /\ \E f, g \in tree :
          /\ Len(f.dir) = 0
          /\ Len(g.dir) = 2
          /\ AssetWav(f) # AssetWav(g)
          /\ mapping[AssetWav(f)] = "root"
          /\ mapping[AssetWav(g)] = g.dir[2]

(***************************************************************************)
(* C12: in wem_to_wav a source asset is skipped exactly when <stem>.wav    *)
(* exists in the staging area or at out/<digit_folder>/<stem>.wav; a       *)
(* skipped asset adds one to skipped_count, causes no Decoder invocation,  *)
(* no copy and no ledger entry; a .wem asset that is not skipped causes    *)
(* exactly one Decoder invocation.                                         *)
(***************************************************************************)
Label(f) == IF Len(f.dir) = 0 THEN "root" ELSE ParentName(f)

StagedOrFinal(f) ==
    LET w == Stem(f.name) \o <<".", "wav">>
    IN  w \in DOMAIN staging \/ <<Label(f), w>> \in DOMAIN out

\* what the skip branch does, and nothing else
SkipEffect ==
    /\ skipped_count' = skipped_count + 1
    /\ UNCHANGED << staging, out, ledger, failedPos, converted_count, failed_count,
                    decoder_calls >>

OneMoreCall(f) ==
    /\ Len(decoder_calls') = Len(decoder_calls) + 1
    /\ SubSeq(decoder_calls', 1, Len(decoder_calls)) = decoder_calls
    /\ decoder_calls'[Len(decoder_calls')].src = f

C12_SkipPolicy ==
    [][\A f \in todo :
          Walks(f) =>
              /\ StagedOrFinal(f) <=> SkipEffect
              /\ (~StagedOrFinal(f) /\ Lower(Suffix(f.name)) = <<".", "wem">>)
                    => OneMoreCall(f)]_vars

\* 1/a.wem was skipped because out/1/a.wav exists, nothing staged
C12_Witness ==
    /\ pc = "extract"
    /\ \E f \in tree \ todo :
          /\ f.name = <<"a", ".", "wem">>
          /\ <<Label(f), WavName(<<"a">>)>> \in DOMAIN out
    /\ staging = NoFiles
    /\ skipped_count > 0
    /\ decoder_calls = <<>>

(***************************************************************************)
(* C13: the Renamer never overwrites or removes a file under the output    *)
(* root; a wem token whose FinalAsset path already exists leaves that      *)
(* file and the staged file as they are.  This holds over every sequence   *)
(* of convert calls, also for two reference files whose names agree up to  *)
(* their first ".".                                                        *)
(***************************************************************************)
InRenamer == pc \in {"rename", "convert"}

\* the running convert call processes the wem token at index i in this step
TakesWemToken ==
    /\ pc = "convert"
    /\ i < Len(tokens)
    /\ i' = i + 1
    /\ StartsWithWem(tokens[i + 1])

C13_NoOverwrite ==
    /\ [][InRenamer => \A q \in DOMAIN out : q \in DOMAIN out' /\ out'[q] = out[q]]_vars
    /\ [][(TakesWemToken /\ Dest(i + 1) \in DOMAIN out)
              => UNCHANGED << out, staging >>]_vars

\* the second of two reference files that agree up to the first "." finds
\* the file the first one left at its destination, the staged file in place
C13_Witness ==
    /\ pc = "convert"
    /\ filename = <<"r", ".", "x", ".", "txtp">>
    /\ \E p \in 1..Len(renameLog) :
          /\ renameLog[p] = "skipping"
          /\ Dest(p) \in DOMAIN out
          /\ out[Dest(p)] # StaleFile
          /\ TokenWav(tokens[p]) \in DOMAIN staging

(***************************************************************************)
(* C14: every call of convert, whatever happens in it (reference file      *)
(* unreadable, destination present, staged file missing, move succeeded,   *)
(* move failed), leaves the FolderMapping, the ledger and the counters     *)
(* converted_count, skipped_count, failed_count unchanged; a token whose   *)
(* staged file is missing records no failure and the tokens after it are   *)
(* still processed.                                                        *)
(***************************************************************************)
\* a step of the Renamer: of a convert call, or between two of them
RenamerStep == InRenamer /\ pc' \in {"rename", "convert"}

C14_ConvertFrame ==
    /\ [][RenamerStep => UNCHANGED << mapping, ledger, failedPos, converted_count,
                                      skipped_count, failed_count >>]_vars
    /\ [][(pc = "convert" /\ pc' # "convert")
              => pc' = "rename" /\ i = Len(tokens) /\ Len(renameLog) = Len(tokens)]_vars
    /\ [](pc = "convert" => Len(renameLog) = i)

\* a token whose staged file was missing, a later token processed, while
\* the ledger and failed_count hold a failure of the Extractor
C14_Witness ==
    /\ pc = "convert"
    /\ \E p \in 1..Len(renameLog) : renameLog[p] = "not found" /\ p < Len(renameLog)
    /\ ledger # <<>>
    /\ failed_count > 0
    /\ mapping # NoFiles

(***************************************************************************)
(* C15: retry_failed_conversions empties the ledger before its first       *)
(* replayed Decoder invocation; at every point of the pass each line of    *)
(* the ledger was written for an entry whose replayed decode has already   *)
(* failed in this pass, and no entry that is still to be replayed is on    *)
(* the ledger (so a process that stops there has lost those entries).      *)
(***************************************************************************)
\* the paths written on the ledger, whatever precedes them on their line
LedgerPathSet == {ledger[k].path : k \in 1..Len(ledger)}

FailedAgain == {decoder_calls[c].src : c \in BadCalls("retry")}

\* the entries the loop of the pass has not reached
Untried == {failed_files[k].path : k \in (rk + 1)..Len(failed_files)}

C15_LedgerDuringRetry ==
    /\ [][(pc = "rename" /\ pc' = "retry")
              => /\ ledger' = <<>>
                 /\ failed_files' = ledger
                 /\ Calls("retry") = {}
                 /\ UNCHANGED decoder_calls]_vars
    /\ [](pc = "retry" =>
              /\ Calls("retry") = {} => ledger = <<>>
              /\ LedgerPathSet \subseteq FailedAgain
              /\ LedgerPathSet \cap Untried = {})

\* mid-pass: of two entries the first has failed again and is back on the
\* ledger, the second is still to be replayed
C15_Witness ==
    /\ pc = "retry"
    /\ Len(failed_files) = 2
    /\ rk = 1
    /\ LedgerPathSet = {failed_files[1].path}
    /\ failed_files[2].path \notin LedgerPathSet

(***************************************************************************)
(* C16: within one run the Decoder is invoked at most once by the          *)
(* Extractor and at most once by the Retrier for any source asset path;    *)
(* the Retrier invokes it only for paths the Extractor recorded as failed  *)
(* in this run; what fails in the retry pass is not tried again.           *)
(***************************************************************************)
CallsFor(stage, pth) == {c \in Calls(stage) : decoder_calls[c].src = pth}

\* the Extractor put pth on the ledger in this run: its decode failed, or it
\* is a .wav asset (the Extractor decodes none) whose copy failed
RecordedFailed(pth) ==
    /\ pth \in tree
    /\ \E k \in 1..Len(failed_files) : failed_files[k].path = pth
    /\ \/ \E c \in BadCalls("extract") : decoder_calls[c].src = pth
       \/ Lower(Suffix(pth.name)) = <<".", "wav">> /\ CallsFor("extract", pth) = {}

C16_AtMostTwice ==
    /\ [](\A c \in 1..Len(decoder_calls) :
              LET pth == decoder_calls[c].src
              IN  /\ Cardinality(CallsFor("extract", pth)) <= 1
                  /\ Cardinality(CallsFor("retry", pth)) <= 1
                  /\ decoder_calls[c].stage \in {"extract", "retry"}
                  /\ decoder_calls[c].stage = "retry" => RecordedFailed(pth))
    /\ [][(pc \in {"cleanup", "summary", "done"}) => UNCHANGED decoder_calls]_vars

\* a finished run in which one asset was decoded twice, failing both times
C16_Witness ==
    /\ pc = "done"
    /\ Len(decoder_calls) = 2
    /\ decoder_calls[1].src = decoder_calls[2].src
    /\ decoder_calls[1].stage = "extract"
    /\ decoder_calls[2].stage = "retry"
    /\ BadCalls("extract") = {1}
    /\ BadCalls("retry") = {2}

(***************************************************************************)
(* C17: in wem_to_wav a .wav source asset that is not skipped is copied    *)
(* into the staging area without a Decoder invocation; a copy that         *)
(* succeeds adds one to skipped_count, never to converted_count, and       *)
(* writes no ledger entry; a copy that fails adds one to failed_count and  *)
(* appends the asset's path to the ledger exactly once.                    *)
(***************************************************************************)
CopySucceeded(f) ==
    /\ Stem(f.name) \o <<".", "wav">> \in DOMAIN staging'
    /\ staging'[Stem(f.name) \o <<".", "wav">>] = f
    /\ skipped_count' = skipped_count + 1
    /\ UNCHANGED << failed_count, ledger >>

CopyFailed(f) ==
    /\ failed_count' = failed_count + 1
    /\ ledger' = Append(ledger, [nul |-> 0, path |-> f])
    /\ UNCHANGED skipped_count

C17_WavIsCopied ==
    [][\A f \in todo :
          (Walks(f) /\ ~StagedOrFinal(f) /\ Lower(Suffix(f.name)) = <<".", "wav">>)
              => /\ UNCHANGED << decoder_calls, converted_count, out >>
                 /\ CopySucceeded(f) \/ CopyFailed(f)]_vars

\* a .wav asset whose copy failed: on the ledger once, nothing decoded
C17_Witness ==
    /\ pc = "extract"
    /\ \E f \in tree \ todo :
          /\ Lower(Suffix(f.name)) = <<".", "wav">>
          /\ ledger = <<[nul |-> 0, path |-> f]>>
    /\ failed_count = 1
    /\ skipped_count = 0
    /\ decoder_calls = <<>>

(***************************************************************************)
(* Failure of shutil.move in the running convert call: the step logs       *)
(* "Failed to rename" for the wem token at index i.                        *)
(***************************************************************************)
MoveFails == TakesWemToken /\ renameLog' = Append(renameLog, "failed")

MoveFailureKept ==
    /\ TokenWav(tokens[i + 1]) \in DOMAIN staging
    /\ staging' = staging
    /\ UNCHANGED << ledger, failedPos, converted_count, skipped_count, failed_count >>
    /\ pc' = "convert"
    /\ i' = i + 1

(***************************************************************************)
(* C18 as stated: when shutil.move fails in convert the staged file stays  *)
(* in the staging area, no file is created at the FinalAsset path, the     *)
(* failure is recorded neither in the ledger nor in a counter, and convert *)
(* goes on with the next token.                                            *)
(***************************************************************************)
C18_Original ==
    [][MoveFails => MoveFailureKept /\ out' = out]_vars

(***************************************************************************)
(* C18 amended: the same, except that the FinalAsset path may have been    *)
(* created (a move that copies and then fails); no other file under the    *)
(* output root changes.                                                    *)
(***************************************************************************)
C18_MoveFailure ==
    [][MoveFails =>
          /\ MoveFailureKept
          /\ Dest(i + 1) \notin DOMAIN out
          /\ \/ out' = out
             \/ out' = Put(out, Dest(i + 1), staging[TokenWav(tokens[i + 1])])]_vars

\* after a failed move the staged file is there, nothing is at the
\* destination, and the next token was processed
C18_Witness ==
    /\ pc = "convert"
    /\ \E p \in 1..Len(renameLog) :
          /\ renameLog[p] = "failed"
          /\ p < Len(renameLog)
          /\ TokenWav(tokens[p]) \in DOMAIN staging
          /\ Dest(p) \notin DOMAIN out

(***************************************************************************)
(* The assets the Retrier counted as converted, and the files under the    *)
(* output root that were made from an asset.                               *)
(***************************************************************************)
RetryConverted == {decoder_calls[c].src : c \in OkCalls("retry")}

OutFilesOf(f) == {q \in DOMAIN out : out[q] = f}

SummaryLogged == pc \in {"summary", "done"}

(***************************************************************************)
(* C19 as stated: every asset counted as converted by the Retrier is       *)
(* absent from the staging area and from the output root when the summary  *)
(* is logged.                                                              *)
(***************************************************************************)
C19_Original ==
    SummaryLogged =>
        \A f \in RetryConverted :
            /\ AssetWav(f) \notin DOMAIN staging
            /\ OutFilesOf(f) = {}

(***************************************************************************)
(* C19 amended: a staged file produced by a successful decode of the retry *)
(* pass is never relocated: from the start of the pass on the output root  *)
(* does not change, the file is in the staging area when the pass returns  *)
(* and gone when the summary is logged.  A file of such an asset under the *)
(* output root was relocated before the pass, from what the asset's failed *)
(* decode or failed copy in the Extractor had left in the staging area.    *)
(***************************************************************************)
LeftByFailedAttempt(f) ==
    \/ \E c \in BadCalls("extract") : decoder_calls[c].src = f /\ decoder_calls[c].res.created
    \/ Lower(Suffix(f.name)) = <<".", "wav">> /\ CallsFor("extract", f) = {}

C19_RetryOutputDiscarded ==
    /\ [][(pc \in {"retry", "cleanup", "summary", "done"}) => out' = out]_vars
    /\ [](AfterRetry =>
              \A f \in RetryConverted :
                  AssetWav(f) \in DOMAIN staging /\ staging[AssetWav(f)] = f)
    /\ [](SummaryLogged =>
              /\ staging = NoFiles
              /\ ~tempExists
              /\ \A f \in RetryConverted : OutFilesOf(f) # {} => LeftByFailedAttempt(f))

\* the summary is logged, the Retrier converted an asset, and neither the
\* staging area nor the output root holds a file of it
C19_Witness ==
    /\ pc = "done"
    /\ converted_count > 0
    /\ \E f \in RetryConverted : OutFilesOf(f) = {} /\ AssetWav(f) \notin DOMAIN staging

(***************************************************************************)
(* C20: when wem_to_wav returns and when retry_failed_conversions returns, *)
(* failed_count is the number of entries (lines) of the failure ledger.    *)
(***************************************************************************)
LedgerEntries == Len(ledger)

C20_FailedCountIsLedgerLength ==
    /\ AtExtractReturn => failed_count = LedgerEntries
    /\ AfterRetry => failed_count = LedgerEntries

\* the retry pass has returned: of two entries it read, one failed again
C20_Witness ==
    /\ AfterRetry
    /\ Len(failed_files) = 2
    /\ failed_count = 1
    /\ LedgerEntries = 1

====
